---- MODULE Spec2Model ----
(***************************************************************************)
(* Model of the three utilities of the repository: the text-statistics     *)
(* analyzer with its report formatter (text_analyzer.py), the password     *)
(* validator (password_validator.py) and the registration validator        *)
(* (live_refactor_example.py).  Each has its own specification.            *)
(*                                                                         *)
(* A text is a sequence of characters; a character is a one-character      *)
(* string.  A Python dict is a function whose DOMAIN is its key set.  An   *)
(* argument that may be None is a record [none, ...].  Floating-point      *)
(* quotients are kept as exact fractions [num, den] with den > 0, and a    *)
(* value rounded to two decimals is kept as an integer count of            *)
(* hundredths.                                                             *)
(***************************************************************************)
EXTENDS Integers, Sequences, FiniteSets, TLC

VARIABLES text, options, pc, result, analysis_result, report,
          password, pw_options, validation, email, name, registration

analyzerVars == <<text, options, result>>
formatVars == <<analysis_result, report>>
validatorVars == <<pw_options, validation>>
registrationVars == <<email, name, registration>>
vars == <<pc, analyzerVars, formatVars, password, validatorVars,
          registrationVars>>

(***************************************************************************)
(* Bounds of the explored inputs.                                          *)
(***************************************************************************)
MaxTextLen == 3
MaxPhraseLen == 6
MaxShapeWords == 4
MaxShapeWordLen == 4
MaxSentimentWords == 3
MaxFormatTextLen == 2
MaxCoreLen == 2
MaxEmailMidLen == 3
MaxNameTailLen == 2

(***************************************************************************)
(* Character classes (str.isalpha, isupper, islower, isdigit, isspace,     *)
(* str.lower, and the regular-expression class \w).                        *)
(***************************************************************************)
AsciiLower ==
    {"a", "b", "c", "d", "e", "f", "g", "h", "i", "j", "k", "l", "m", "n",
     "o", "p", "q", "r", "s", "t", "u", "v", "w", "x", "y", "z"}
AsciiUpper == {"A"}
NonAsciiLetters == {"e'"}
Digits == {"0", "1", "2", "3", "4", "5", "6", "7", "8", "9"}
Spaces == {" ", "\n"}

IsAsciiLetter(c) == c \in AsciiLower \cup AsciiUpper
isalpha(c) == c \in AsciiLower \cup AsciiUpper \cup NonAsciiLetters
isupper(c) == c \in AsciiUpper
islower(c) == c \in AsciiLower \cup NonAsciiLetters
isdigit(c) == c \in Digits
isspace(c) == c \in Spaces
IsWordChar(c) == isalpha(c) \/ isdigit(c) \/ c = "_"
IsTerminator(c) == c \in {".", "!", "?"}
IsPunctuation(c) == c \in {".", ",", "!", "?", ";", ":"}

ToLower(c) == IF c = "A" THEN "a" ELSE c
lower(s) == [i \in 1..Len(s) |-> ToLower(s[i])]

Min(a, b) == IF a <= b THEN a ELSE b

CountIf(s, P(_)) == Cardinality({i \in 1..Len(s) : P(s[i])})

(***************************************************************************)
(* str.strip(): drop leading and trailing whitespace.                      *)
(***************************************************************************)
strip(s) ==
    LET ns == {i \in 1..Len(s) : ~isspace(s[i])}
    IN  IF ns = {} THEN <<>>
        ELSE LET lo == CHOOSE i \in ns : \A j \in ns : i <= j
                 hi == CHOOSE i \in ns : \A j \in ns : i >= j
             IN  SubSeq(s, lo, hi)

(***************************************************************************)
(* re.split(r"[.!?]+", s): the fragments between the leftmost greedy       *)
(* matches of one or more terminators.                                     *)
(***************************************************************************)
RECURSIVE TerminatorRunEnd(_, _)
TerminatorRunEnd(s, i) ==
    IF i < Len(s) /\ IsTerminator(s[i + 1]) THEN TerminatorRunEnd(s, i + 1)
    ELSE i

RECURSIVE SplitFrom(_, _, _)
SplitFrom(s, i, cur) ==
    IF i > Len(s) THEN <<cur>>
    ELSE IF IsTerminator(s[i])
         THEN <<cur>> \o SplitFrom(s, TerminatorRunEnd(s, i) + 1, <<>>)
         ELSE SplitFrom(s, i + 1, Append(cur, s[i]))

re_split_terminators(s) == SplitFrom(s, 1, <<>>)

NonBlank(f) == strip(f) # <<>>

\* Variant that keeps the empty and blank fragments.
sentences_unfiltered(t) == re_split_terminators(strip(t))

sentences(t) ==
    LET frags == re_split_terminators(strip(t))
        kept == SelectSeq(frags, NonBlank)
    IN  [i \in 1..Len(kept) |-> strip(kept[i])]

(***************************************************************************)
(* text.split("\n\n"): non-overlapping occurrences, left to right.         *)
(***************************************************************************)
RECURSIVE SplitBlankFrom(_, _, _)
SplitBlankFrom(s, i, cur) ==
    IF i > Len(s) THEN <<cur>>
    ELSE IF i < Len(s) /\ s[i] = "\n" /\ s[i + 1] = "\n"
         THEN <<cur>> \o SplitBlankFrom(s, i + 2, <<>>)
         ELSE SplitBlankFrom(s, i + 1, Append(cur, s[i]))

paragraphs(t) ==
    LET kept == SelectSeq(SplitBlankFrom(t, 1, <<>>), NonBlank)
    IN  [i \in 1..Len(kept) |-> strip(kept[i])]

IsNotSpaceChar(c) == c # " "

basic_stats(t) ==
    [total_characters |-> Len(t),
     total_characters_no_spaces |-> CountIf(t, IsNotSpaceChar),
     total_sentences |-> Len(sentences(t)),
     total_paragraphs |-> Len(paragraphs(t))]

(***************************************************************************)
(* re.findall(r"\b[a-zA-Z]+\b", s).  \b holds at position p (between       *)
(* s[p-1] and s[p]) when exactly one of the two neighbours is a \w         *)
(* character.  At a start position the greedy [a-zA-Z]+ backtracks to the  *)
(* longest end at which \b holds.                                          *)
(***************************************************************************)
IsBoundary(s, p) ==
    LET left == p > 1 /\ IsWordChar(s[p - 1])
        right == p <= Len(s) /\ IsWordChar(s[p])
    IN  left # right

SetMax(S) == CHOOSE x \in S : \A y \in S : x >= y

\* Variant for the pattern [a-zA-Z]+ without the two \b anchors.
MatchWordAt_no_boundary(s, i) ==
    LET ends == {j \in i..Len(s) : \A k \in i..j : IsAsciiLetter(s[k])}
    IN  IF ends # {} THEN SetMax(ends) ELSE 0

\* End index of the match of the word pattern starting at i, 0 when the
\* pattern does not match at i.
MatchWordAt(s, i) ==
    LET ends == {j \in i..Len(s) :
                    /\ \A k \in i..j : IsAsciiLetter(s[k])
                    /\ IsBoundary(s, j + 1)}
    IN  IF IsBoundary(s, i) /\ ends # {} THEN SetMax(ends) ELSE 0

RECURSIVE FindAllFrom(_, _)
FindAllFrom(s, i) ==
    IF i > Len(s) THEN <<>>
    ELSE LET j == MatchWordAt(s, i)
         IN  IF j > 0 THEN <<SubSeq(s, i, j)>> \o FindAllFrom(s, j + 1)
             ELSE FindAllFrom(s, i + 1)

find_words(t) == FindAllFrom(lower(t), 1)

(***************************************************************************)
(* collections.Counter: the items (key, count) in first-insertion order,   *)
(* and most_common(n), which is sorted(items, key=count, reverse=True)[:n] *)
(* with a stable sort.                                                     *)
(***************************************************************************)
Range(s) == {s[i] : i \in 1..Len(s)}

RECURSIVE FirstSeen(_, _, _)
FirstSeen(s, i, acc) ==
    IF i > Len(s) THEN acc
    ELSE FirstSeen(s, i + 1,
                   IF s[i] \in Range(acc) THEN acc ELSE Append(acc, s[i]))

Occurrences(s, x) == Cardinality({i \in 1..Len(s) : s[i] = x})

Counter(s) ==
    LET keys == FirstSeen(s, 1, <<>>)
    IN  [i \in 1..Len(keys) |-> <<keys[i], Occurrences(s, keys[i])>>]

\* Variant that places x before the items of equal count (unstable sort).
InsertSorted_unstable(sorted, x) ==
    LET k == Cardinality({j \in 1..Len(sorted) : sorted[j][2] > x[2]})
    IN  SubSeq(sorted, 1, k) \o <<x>> \o SubSeq(sorted, k + 1, Len(sorted))

\* Position of x in a list already sorted by descending count: after every
\* item whose count is at least x's (stability).
InsertSorted(sorted, x) ==
    LET k == Cardinality({j \in 1..Len(sorted) : sorted[j][2] >= x[2]})
    IN  SubSeq(sorted, 1, k) \o <<x>> \o SubSeq(sorted, k + 1, Len(sorted))

RECURSIVE SortByCountDesc(_, _)
SortByCountDesc(items, i) ==
    IF i = 0 THEN <<>>
    ELSE InsertSorted(SortByCountDesc(items, i - 1), items[i])

most_common(items, n) ==
    LET sorted == SortByCountDesc(items, Len(items))
    IN  SubSeq(sorted, 1, Min(n, Len(sorted)))

(***************************************************************************)
(* Option values: [kind, v].  kind is the Python type; v is the integer    *)
(* value of an int, 0/1 for a bool, the length of a str, and the integer   *)
(* part of a float.                                                        *)
(***************************************************************************)
EmptyDict == [k \in {} |-> 0]

IntVal(n) == [kind |-> "int", v |-> n]
BoolVal(b) == [kind |-> "bool", v |-> IF b THEN 1 ELSE 0]
StrVal(n) == [kind |-> "str", v |-> n]
FloatVal(n) == [kind |-> "float", v |-> n]

\* isinstance(x, int): bool is a subclass of int.
IsInstanceInt(x) == x.kind \in {"int", "bool"}
Truthy(x) == x.v # 0
DictTruthy(d) == DOMAIN d # {}

DefaultTopCount == 5

\* Variant that ignores options["top_words_count"].
top_count_default_only(opts) == DefaultTopCount

top_count(opts) ==
    IF DictTruthy(opts) /\ "top_words_count" \in DOMAIN opts
    THEN IF IsInstanceInt(opts["top_words_count"])
            /\ opts["top_words_count"].v > 0
         THEN opts["top_words_count"].v
         ELSE DefaultTopCount
    ELSE DefaultTopCount

RECURSIVE SumLen(_, _)
SumLen(ws, i) == IF i > Len(ws) THEN 0 ELSE Len(ws[i]) + SumLen(ws, i + 1)

\* max(words, key=len) and min(words, key=len): the first extremal element.
longest_word(ws) ==
    ws[CHOOSE i \in 1..Len(ws) :
          /\ \A j \in 1..Len(ws) : Len(ws[j]) <= Len(ws[i])
          /\ \A j \in 1..(i - 1) : Len(ws[j]) < Len(ws[i])]

shortest_word(ws) ==
    ws[CHOOSE i \in 1..Len(ws) :
          /\ \A j \in 1..Len(ws) : Len(ws[j]) >= Len(ws[i])
          /\ \A j \in 1..(i - 1) : Len(ws[j]) > Len(ws[i])]

word_analysis(ws, opts) ==
    IF Len(ws) > 0
    THEN [total_words |-> Len(ws),
          most_common_words |-> most_common(Counter(ws), top_count(opts)),
          average_word_length |-> [num |-> SumLen(ws, 1), den |-> Len(ws)],
          longest_word |-> longest_word(ws),
          shortest_word |-> shortest_word(ws),
          unique_words |-> Cardinality(Range(ws)),
          lexical_diversity |->
              [num |-> Cardinality(Range(ws)), den |-> Len(ws)]]
    ELSE [total_words |-> 0]

character_analysis(t) ==
    LET letters == SelectSeq(lower(t), isalpha)
        counts == [uppercase_count |-> CountIf(t, isupper),
                   lowercase_count |-> CountIf(t, islower),
                   digit_count |-> CountIf(t, isdigit),
                   punctuation_count |-> CountIf(t, IsPunctuation),
                   whitespace_count |-> CountIf(t, isspace)]
    IN  IF letters # <<>>
        THEN [most_common_letters |-> most_common(Counter(letters), 5)]
             @@ counts
        ELSE counts

(***************************************************************************)
(* Readability.  A call outcome is [exc, value]: exc is "none" for a       *)
(* normal return and the exception class otherwise.                        *)
(***************************************************************************)
Return(v) == [exc |-> "none", value |-> v]
Raise(e) == [exc |-> e, value |-> EmptyDict]

FracGE(f, k) == f.num >= k * f.den

\* 206.835 - 1.015 * aws - 84.6 * (awl * 0.7), as an exact fraction.
raw_score(aws, awl) ==
    [num |-> 206835 * aws.den * awl.den
             - 1015 * aws.num * awl.den
             - 59220 * awl.num * aws.den,
     den |-> 1000 * aws.den * awl.den]

\* Variant that clamps at the upper end only.
clamp_score_upper_only(score) ==
    IF score.num > 100 * score.den THEN [num |-> 100, den |-> 1] ELSE score

clamp_score(score) ==
    IF score.num > 100 * score.den THEN [num |-> 100, den |-> 1]
    ELSE IF score.num < 0 THEN [num |-> 0, den |-> 1]
    ELSE score

\* round(x, 2) in hundredths: the nearest hundredth.  When the exact value
\* lies halfway between two hundredths the floating-point error of the
\* score decides the direction; fp_tie (0 or 1) is that direction.
round2(f, fp_tie) ==
    LET n == 100 * f.num
        q == n \div f.den
        r == n % f.den
    IN  IF 2 * r > f.den THEN q + 1
        ELSE IF 2 * r < f.den THEN q
        ELSE q + fp_tie

\* Variant without the ">= 60" branch.
difficulty_level_no_standard(score) ==
    IF FracGE(score, 90) THEN "Very Easy"
    ELSE IF FracGE(score, 80) THEN "Easy"
    ELSE IF FracGE(score, 70) THEN "Fairly Easy"
    ELSE IF FracGE(score, 50) THEN "Fairly Difficult"
    ELSE IF FracGE(score, 30) THEN "Difficult"
    ELSE "Very Difficult"

difficulty_level(score) ==
    IF FracGE(score, 90) THEN "Very Easy"
    ELSE IF FracGE(score, 80) THEN "Easy"
    ELSE IF FracGE(score, 70) THEN "Fairly Easy"
    ELSE IF FracGE(score, 60) THEN "Standard"
    ELSE IF FracGE(score, 50) THEN "Fairly Difficult"
    ELSE IF FracGE(score, 30) THEN "Difficult"
    ELSE "Very Difficult"

\* Variant that tests the sentence count only.
readability_guard_sentences_only(bs, wa) == bs.total_sentences > 0

\* Variant without the guard.
readability_guard_always(bs, wa) == TRUE

readability_guard(bs, wa) ==
    bs.total_sentences > 0 /\ wa.total_words > 0

readability(bs, wa, fp_tie) ==
    IF readability_guard(bs, wa)
    THEN IF bs.total_sentences = 0 THEN Raise("ZeroDivisionError")
         ELSE IF "average_word_length" \notin DOMAIN wa THEN Raise("KeyError")
         ELSE LET aws == [num |-> wa.total_words, den |-> bs.total_sentences]
                  score == clamp_score(raw_score(aws, wa.average_word_length))
              IN  Return([average_words_per_sentence |-> aws,
                          flesch_score |-> round2(score, fp_tie),
                          difficulty_level |-> difficulty_level(score)])
    ELSE Return(EmptyDict)

(***************************************************************************)
(* Optional sections: language detection and sentiment.                    *)
(***************************************************************************)
english_words ==
    {<<"t", "h", "e">>, <<"a", "n", "d">>, <<"t", "o">>, <<"o", "f">>,
     <<"a">>, <<"i", "n">>, <<"i", "s">>, <<"i", "t">>,
     <<"y", "o", "u">>, <<"t", "h", "a", "t">>}

spanish_words ==
    {<<"e", "l">>, <<"l", "a">>, <<"d", "e">>, <<"q", "u", "e">>, <<"y">>,
     <<"a">>, <<"e", "n">>, <<"u", "n">>, <<"e", "s">>, <<"s", "e">>}

positive_words ==
    {<<"g", "o", "o", "d">>, <<"g", "r", "e", "a", "t">>,
     <<"e", "x", "c", "e", "l", "l", "e", "n", "t">>,
     <<"a", "m", "a", "z", "i", "n", "g">>,
     <<"w", "o", "n", "d", "e", "r", "f", "u", "l">>,
     <<"f", "a", "n", "t", "a", "s", "t", "i", "c">>,
     <<"l", "o", "v", "e">>, <<"h", "a", "p", "p", "y">>}

negative_words ==
    {<<"b", "a", "d">>, <<"t", "e", "r", "r", "i", "b", "l", "e">>,
     <<"a", "w", "f", "u", "l">>, <<"h", "a", "t", "e">>, <<"s", "a", "d">>,
     <<"a", "n", "g", "r", "y">>,
     <<"d", "i", "s", "a", "p", "p", "o", "i", "n", "t", "e", "d">>,
     <<"h", "o", "r", "r", "i", "b", "l", "e">>}

CountIn(ws, list) == Cardinality({i \in 1..Len(ws) : ws[i] \in list})

\* Variant that tests the presence of the key only.
option_enabled_key_only(opts, key) == DictTruthy(opts) /\ key \in DOMAIN opts

\* options and key in options and options[key]
option_enabled(opts, key) ==
    DictTruthy(opts) /\ key \in DOMAIN opts /\ Truthy(opts[key])

language_detection(ws) ==
    LET english_count == CountIn(ws, english_words)
        spanish_count == CountIn(ws, spanish_words)
    IN  IF english_count > spanish_count
        THEN [detected_language |-> "English", confidence |-> "Low"]
        ELSE IF spanish_count > english_count
        THEN [detected_language |-> "Spanish", confidence |-> "Low"]
        ELSE [detected_language |-> "Unknown", confidence |-> "Very Low"]

\* Variant that compares the counts with >= instead of >.
sentiment_analysis_ge(ws) ==
    LET positive_count == CountIn(ws, positive_words)
        negative_count == CountIn(ws, negative_words)
    IN  [sentiment |-> IF positive_count >= negative_count THEN "Positive"
                       ELSE IF negative_count >= positive_count THEN "Negative"
                       ELSE "Neutral",
         positive_words_count |-> positive_count,
         negative_words_count |-> negative_count]

sentiment_analysis(ws) ==
    LET positive_count == CountIn(ws, positive_words)
        negative_count == CountIn(ws, negative_words)
    IN  [sentiment |-> IF positive_count > negative_count THEN "Positive"
                       ELSE IF negative_count > positive_count THEN "Negative"
                       ELSE "Neutral",
         positive_words_count |-> positive_count,
         negative_words_count |-> negative_count]

\* Variant for "if text is None".
text_is_empty_none_only(t) == t.none

\* "if not text": None and the empty string are falsy.
text_is_empty(t) == t.none \/ t.str = <<>>

analyze_text(t, o, fp_tie) ==
    IF text_is_empty(t) THEN Return([error |-> "Text cannot be empty"])
    ELSE LET opts == IF o.none THEN EmptyDict ELSE o.dict
             bs == basic_stats(t.str)
             ws == find_words(t.str)
             wa == word_analysis(ws, opts)
             ca == character_analysis(t.str)
             rd == readability(bs, wa, fp_tie)
             lang == IF option_enabled(opts, "include_language_detection")
                     THEN [language_detection |-> language_detection(ws)]
                     ELSE EmptyDict
             sent == IF option_enabled(opts, "include_sentiment")
                     THEN [sentiment_analysis |-> sentiment_analysis(ws)]
                     ELSE EmptyDict
         IN  IF rd.exc # "none" THEN Raise(rd.exc)
             ELSE Return([basic_stats |-> bs,
                          word_analysis |-> wa,
                          character_analysis |-> ca,
                          readability |-> rd.value] @@ lang @@ sent)

(***************************************************************************)
(* format_analysis_report.  The function builds a list of lines and joins  *)
(* it with "\n".  A line is kept as the literal text of its f-string with  *)
(* "{}" where a value is substituted (and "{:.2f}" where it is formatted   *)
(* with two decimals), together with the substituted values.  Characters   *)
(* of the source outside ASCII are written by their code points.  The      *)
(* returned string is the sequence of its lines; an element that ends in   *)
(* "\n" is followed by an empty line in the joined string.                 *)
(***************************************************************************)
Line(fmt, args) == [fmt |-> fmt, args |-> args]

Bullet == "  <U+201A><U+C4><U+A2> "
BlankLine == Line("", <<>>)
TitleLine == Line("=== TEXT ANALYSIS REPORT ===\n", <<>>)

SectionOrder ==
    <<"basic_stats", "word_analysis", "character_analysis", "readability",
      "language_detection", "sentiment_analysis">>

Header(section) ==
    CASE section = "basic_stats" ->
             Line("<U+F8FF><U+FC><U+EC><U+E4> BASIC STATISTICS:", <<>>)
      [] section = "word_analysis" ->
             Line("<U+F8FF><U+FC><U+EC><U+F9> WORD ANALYSIS:", <<>>)
      [] section = "character_analysis" ->
             Line("<U+F8FF><U+FC><U+EE><U+A7> CHARACTER ANALYSIS:", <<>>)
      [] section = "readability" ->
             Line("<U+F8FF><U+FC><U+EC><U+F1> READABILITY:", <<>>)
      [] section = "language_detection" ->
             Line("<U+F8FF><U+FC><U+E5><U+EA> LANGUAGE DETECTION:", <<>>)
      [] section = "sentiment_analysis" ->
             Line("<U+F8FF><U+FC><U+F2><U+E4> SENTIMENT ANALYSIS:", <<>>)

\* dict.get(key, default)
Get(d, key, default) == IF key \in DOMAIN d THEN d[key] ELSE default

\* key.replace("_", " ").title() on the keys analyze_text stores.
readable_key(key) ==
    CASE key = "uppercase_count" -> "Uppercase Count"
      [] key = "lowercase_count" -> "Lowercase Count"
      [] key = "digit_count" -> "Digit Count"
      [] key = "punctuation_count" -> "Punctuation Count"
      [] key = "whitespace_count" -> "Whitespace Count"
      [] key = "average_words_per_sentence" -> "Average Words Per Sentence"
      [] key = "flesch_score" -> "Flesch Score"
      [] key = "difficulty_level" -> "Difficulty Level"

\* Insertion order of the keys of the two sections the report iterates.
CharacterKeyOrder ==
    <<"most_common_letters", "uppercase_count", "lowercase_count",
      "digit_count", "punctuation_count", "whitespace_count">>
ReadabilityKeyOrder ==
    <<"average_words_per_sentence", "flesch_score", "difficulty_level">>

\* d.items() of a dict whose keys were inserted following order.
Items(d, order) == SelectSeq(order, LAMBDA k : k \in DOMAIN d)

\* The "    - 'x': n" lines of a most_common list.
PairLines(pairs) ==
    [i \in 1..Len(pairs) |->
        Line("    - '{}': {}", <<pairs[i][1], pairs[i][2]>>)]

\* Concatenation of a sequence of sequences.
RECURSIVE Flatten(_, _)
Flatten(ss, i) == IF i > Len(ss) THEN <<>> ELSE ss[i] \o Flatten(ss, i + 1)

\* Variant: the error branch is taken only when error is the sole key.
has_error_sole_key(ar) == DOMAIN ar = {"error"}

\* if "error" in analysis_result
has_error(ar) == "error" \in DOMAIN ar

\* Variant: a section that is present but empty is skipped.
section_present_nonempty(ar, section) ==
    section \in DOMAIN ar /\ DictTruthy(ar[section])

\* if "<section>" in analysis_result
section_present(ar, section) == section \in DOMAIN ar

basic_stats_block(ar) ==
    IF section_present(ar, "basic_stats")
    THEN LET stats == ar["basic_stats"]
         IN  <<Header("basic_stats"),
               Line(Bullet \o "Total Characters: {}",
                    <<Get(stats, "total_characters", 0)>>),
               Line(Bullet \o "Characters (no spaces): {}",
                    <<Get(stats, "total_characters_no_spaces", 0)>>),
               Line(Bullet \o "Total Words: {}",
                    <<Get(Get(ar, "word_analysis", EmptyDict),
                          "total_words", 0)>>),
               Line(Bullet \o "Total Sentences: {}",
                    <<Get(stats, "total_sentences", 0)>>),
               Line(Bullet \o "Total Paragraphs: {}",
                    <<Get(stats, "total_paragraphs", 0)>>),
               BlankLine>>
    ELSE <<>>

word_analysis_block(ar) ==
    IF section_present(ar, "word_analysis")
    THEN LET word_stats == ar["word_analysis"]
         IN  <<Header("word_analysis")>>
             \o (IF "average_word_length" \in DOMAIN word_stats
                 THEN <<Line(Bullet \o "Average Word Length: {:.2f}",
                             <<word_stats["average_word_length"]>>)>>
                 ELSE <<>>)
             \o (IF "longest_word" \in DOMAIN word_stats
                 THEN <<Line(Bullet \o "Longest Word: '{}'",
                             <<word_stats["longest_word"]>>)>>
                 ELSE <<>>)
             \o (IF "shortest_word" \in DOMAIN word_stats
                 THEN <<Line(Bullet \o "Shortest Word: '{}'",
                             <<word_stats["shortest_word"]>>)>>
                 ELSE <<>>)
             \o (IF "lexical_diversity" \in DOMAIN word_stats
                 THEN <<Line(Bullet \o "Lexical Diversity: {:.2f}",
                             <<word_stats["lexical_diversity"]>>)>>
                 ELSE <<>>)
             \o (IF "most_common_words" \in DOMAIN word_stats
                 THEN <<Line(Bullet \o "Most Common Words:", <<>>)>>
                      \o PairLines(word_stats["most_common_words"])
                 ELSE <<>>)
             \o <<BlankLine>>
    ELSE <<>>

character_analysis_block(ar) ==
    IF section_present(ar, "character_analysis")
    THEN LET char_stats == ar["character_analysis"]
             keys == Items(char_stats, CharacterKeyOrder)
             KeyLines(key) ==
                 IF key = "most_common_letters"
                 THEN <<Line(Bullet \o "Most Common Letters:", <<>>)>>
                      \o PairLines(char_stats[key])
                 ELSE <<Line(Bullet \o readable_key(key) \o ": {}",
                             <<char_stats[key]>>)>>
         IN  <<Header("character_analysis")>>
             \o Flatten([i \in 1..Len(keys) |-> KeyLines(keys[i])], 1)
             \o <<BlankLine>>
    ELSE <<>>

readability_block(ar) ==
    IF section_present(ar, "readability")
    THEN LET rd == ar["readability"]
             keys == Items(rd, ReadabilityKeyOrder)
         IN  <<Header("readability")>>
             \o [i \in 1..Len(keys) |->
                    Line(Bullet \o readable_key(keys[i]) \o ": {}",
                         <<rd[keys[i]]>>)]
             \o <<BlankLine>>
    ELSE <<>>

language_detection_block(ar) ==
    IF section_present(ar, "language_detection")
    THEN LET lang_info == ar["language_detection"]
         IN  <<Header("language_detection"),
               Line(Bullet \o "Detected Language: {}",
                    <<lang_info["detected_language"]>>),
               Line(Bullet \o "Confidence: {}", <<lang_info["confidence"]>>),
               BlankLine>>
    ELSE <<>>

sentiment_analysis_block(ar) ==
    IF section_present(ar, "sentiment_analysis")
    THEN LET sentiment == ar["sentiment_analysis"]
         IN  <<Header("sentiment_analysis"),
               Line(Bullet \o "Overall Sentiment: {}",
                    <<sentiment["sentiment"]>>),
               Line(Bullet \o "Positive Words: {}",
                    <<sentiment["positive_words_count"]>>),
               Line(Bullet \o "Negative Words: {}",
                    <<sentiment["negative_words_count"]>>),
               BlankLine>>
    ELSE <<>>

\* "\n".join(report): the lines of the joined string.  Every element is one
\* line, and the title, which ends in "\n", is followed by an empty line.
join_lines(elements) ==
    Flatten([i \in 1..Len(elements) |->
                IF elements[i].fmt = TitleLine.fmt
                THEN <<Line("=== TEXT ANALYSIS REPORT ===", <<>>), BlankLine>>
                ELSE <<elements[i]>>], 1)

format_analysis_report(ar) ==
    IF has_error(ar)
    THEN <<Line("Error: {}", <<ar["error"]>>)>>
    ELSE join_lines(<<TitleLine>>
                    \o basic_stats_block(ar)
                    \o word_analysis_block(ar)
                    \o character_analysis_block(ar)
                    \o readability_block(ar)
                    \o language_detection_block(ar)
                    \o sentiment_analysis_block(ar))

(***************************************************************************)
(* validate_password.  A password is a sequence of characters.  The        *)
(* messages are the strings the f-strings produce.                         *)
(***************************************************************************)
DefaultMinLength == 8
DefaultMaxLength == 128

\* "".join(chars)
RECURSIVE Concat(_)
Concat(chars) == IF chars = <<>> THEN "" ELSE chars[1] \o Concat(Tail(chars))

\* sub in s
Contains(s, sub) ==
    \E i \in 0..(Len(s) - Len(sub)) : \A j \in 1..Len(sub) : s[i + j] = sub[j]

\* The substrings of three consecutive characters of row, left to right.
Windows(row) == [i \in 1..(Len(row) - 2) |-> SubSeq(row, i, i + 2)]

special_chars ==
    {"!", "@", "#", "$", "%", "^", "&", "*", "(", ")", "_", "+", "-", "=",
     "[", "]", "{", "}", "|", ";", ":", ",", ".", "<", ">", "?"}
is_special(c) == c \in special_chars

has_upper(p) == \E i \in 1..Len(p) : isupper(p[i])
has_lower(p) == \E i \in 1..Len(p) : islower(p[i])
has_digit(p) == \E i \in 1..Len(p) : isdigit(p[i])
has_special(p) == \E i \in 1..Len(p) : is_special(p[i])

ListVal(ws) == [kind |-> "list", v |-> ws]

default_forbidden_words ==
    ListVal(<<<<"p", "a", "s", "s", "w", "o", "r", "d">>,
              <<"1", "2", "3", "4", "5", "6">>,
              <<"q", "w", "e", "r", "t", "y">>>>)

\* if len(password) < min_length: ... elif len(password) > max_length: ...
length_errors(p, min_length, max_length) ==
    IF Len(p) < min_length
    THEN <<"Password must be at least " \o ToString(min_length)
           \o " characters long">>
    ELSE IF Len(p) > max_length
    THEN <<"Password must be no more than " \o ToString(max_length)
           \o " characters long">>
    ELSE <<>>

requirement_errors(p, opts) ==
    (IF Truthy(Get(opts, "require_uppercase", BoolVal(TRUE))) /\ ~has_upper(p)
     THEN <<"Password must contain at least one uppercase letter">>
     ELSE <<>>)
    \o (IF Truthy(Get(opts, "require_lowercase", BoolVal(TRUE)))
           /\ ~has_lower(p)
        THEN <<"Password must contain at least one lowercase letter">>
        ELSE <<>>)
    \o (IF Truthy(Get(opts, "require_digits", BoolVal(TRUE))) /\ ~has_digit(p)
        THEN <<"Password must contain at least one digit">>
        ELSE <<>>)
    \o (IF Truthy(Get(opts, "require_special", BoolVal(TRUE)))
           /\ ~has_special(p)
        THEN <<"Password must contain at least one special character">>
        ELSE <<>>)

forbidden_errors(p, forbidden_words) ==
    LET hit == SelectSeq(forbidden_words,
                         LAMBDA word : Contains(lower(p), lower(word)))
    IN  [i \in 1..Len(hit) |->
            "Password cannot contain '" \o Concat(hit[i]) \o "'"]

\* re.search(r"(.)\1{2,}", password)
has_repeated_characters(p) ==
    \E i \in 1..(Len(p) - 2) :
        p[i] # "\n" /\ p[i + 1] = p[i] /\ p[i + 2] = p[i]

\* The alternatives 012|123|...|789|890.
sequential_numbers ==
    Windows(<<"0", "1", "2", "3", "4", "5", "6", "7", "8", "9", "0">>)

\* The alternatives abc|bcd|...|wxy|xyz.
sequential_letters ==
    Windows(<<"a", "b", "c", "d", "e", "f", "g", "h", "i", "j", "k", "l", "m",
              "n", "o", "p", "q", "r", "s", "t", "u", "v", "w", "x", "y",
              "z">>)

ContainsAny(s, subs) == \E i \in 1..Len(subs) : Contains(s, subs[i])

keyboard_rows ==
    <<<<"q", "w", "e", "r", "t", "y", "u", "i", "o", "p">>,
      <<"a", "s", "d", "f", "g", "h", "j", "k", "l">>,
      <<"z", "x", "c", "v", "b", "n", "m">>,
      <<"1", "2", "3", "4", "5", "6", "7", "8", "9", "0">>>>

keyboard_warnings(p) ==
    LET patterns == Flatten([r \in 1..Len(keyboard_rows) |->
                                Windows(keyboard_rows[r])], 1)
        hit == SelectSeq(patterns, LAMBDA pattern : Contains(lower(p), pattern))
    IN  [i \in 1..Len(hit) |->
            "Password contains keyboard pattern '" \o Concat(hit[i]) \o "'"]

\* Variant: the first length threshold is compared with >.
strength_score_gt(p) ==
    (IF Len(p) > 8 THEN 2 ELSE 0)
    + (IF Len(p) >= 12 THEN 1 ELSE 0)
    + (IF Len(p) >= 16 THEN 1 ELSE 0)
    + (IF Len(p) >= 20 THEN 1 ELSE 0)
    + (IF has_upper(p) THEN 1 ELSE 0)
    + (IF has_lower(p) THEN 1 ELSE 0)
    + (IF has_digit(p) THEN 1 ELSE 0)
    + (IF has_special(p) THEN 1 ELSE 0)

strength_score(p) ==
    (IF Len(p) >= 8 THEN 2 ELSE 0)
    + (IF Len(p) >= 12 THEN 1 ELSE 0)
    + (IF Len(p) >= 16 THEN 1 ELSE 0)
    + (IF Len(p) >= 20 THEN 1 ELSE 0)
    + (IF has_upper(p) THEN 1 ELSE 0)
    + (IF has_lower(p) THEN 1 ELSE 0)
    + (IF has_digit(p) THEN 1 ELSE 0)
    + (IF has_special(p) THEN 1 ELSE 0)

strength(score) ==
    IF score <= 4 THEN "Weak"
    ELSE IF score <= 6 THEN "Medium"
    ELSE IF score <= 8 THEN "Strong"
    ELSE "Very Strong"

\* strength.lower()
strength_lower(label) ==
    CASE label = "Weak" -> "weak"
      [] label = "Medium" -> "medium"
      [] label = "Strong" -> "strong"
      [] label = "Very Strong" -> "very strong"

\* Variant: the warning is given to passwords longer than 20 only.
very_long_warning_gt(p) ==
    IF Len(p) > 20
    THEN <<"Very long password - consider using a password manager">>
    ELSE <<>>

very_long_warning(p) ==
    IF Len(p) >= 20
    THEN <<"Very long password - consider using a password manager">>
    ELSE <<>>

\* Variant: a password with warnings is not valid.
is_valid_no_warnings(errors, warnings) == Len(errors) = 0 /\ Len(warnings) = 0

is_valid(errors, warnings) == Len(errors) = 0

password_message(valid, label, errors, warnings) ==
    IF valid
    THEN IF Len(warnings) = 0
         THEN "Password is valid and " \o strength_lower(label)
         ELSE "Password is valid but " \o strength_lower(label) \o " with "
              \o ToString(Len(warnings)) \o " warning(s)"
    ELSE "Password is invalid with " \o ToString(Len(errors)) \o " error(s)"

validate_password(pw, o) ==
    IF pw.none \/ pw.str = <<>>
    THEN [valid |-> FALSE,
          message |-> "Password is required",
          errors |-> <<"Password cannot be empty">>]
    ELSE LET p == pw.str
             opts == IF o.none THEN EmptyDict ELSE o.dict
             min_length == Get(opts, "min_length", IntVal(DefaultMinLength)).v
             max_length == Get(opts, "max_length", IntVal(DefaultMaxLength)).v
             forbidden_words ==
                 Get(opts, "forbidden_words", default_forbidden_words).v
             errors == length_errors(p, min_length, max_length)
                       \o requirement_errors(p, opts)
                       \o forbidden_errors(p, forbidden_words)
             warnings ==
                 (IF has_repeated_characters(p)
                  THEN <<"Password contains repeated characters">>
                  ELSE <<>>)
                 \o (IF ContainsAny(p, sequential_numbers)
                     THEN <<"Password contains sequential numbers">>
                     ELSE <<>>)
                 \o (IF ContainsAny(lower(p), sequential_letters)
                     THEN <<"Password contains sequential letters">>
                     ELSE <<>>)
                 \o very_long_warning(p)
                 \o keyboard_warnings(p)
             score == strength_score(p)
             valid == is_valid(errors, warnings)
         IN  [valid |-> valid,
              message |-> password_message(valid, strength(score), errors,
                                           warnings),
              errors |-> errors,
              warnings |-> warnings,
              strength |-> strength(score),
              strength_score |-> score]

(***************************************************************************)
(* validate_user_registration.  Each argument is a string or None.         *)
(***************************************************************************)
\* The classes of the e-mail pattern
\* ^[a-zA-Z0-9._%+-]+@[a-zA-Z0-9.-]+\.[a-zA-Z]{2,}$
IsLocalChar(c) ==
    IsAsciiLetter(c) \/ isdigit(c) \/ c \in {".", "_", "%", "+", "-"}
IsDomainChar(c) == IsAsciiLetter(c) \/ isdigit(c) \/ c \in {".", "-"}

AllIn(s, from, to, P(_)) == \A k \in from..to : P(s[k])

\* re.match of the pattern: a non-empty local part, "@", a non-empty domain
\* part, ".", and two or more letters up to the end of the string, where $
\* also matches just before one final newline.
email_matches(s) ==
    \E end \in {Len(s)} \cup {e \in {Len(s) - 1} : e >= 1 /\ s[Len(s)] = "\n"} :
        \E i \in {k \in 2..end : s[k] = "@"} :
        \E j \in {k \in (i + 2)..(end - 2) : s[k] = "."} :
            /\ AllIn(s, 1, i - 1, IsLocalChar)
            /\ AllIn(s, i + 1, j - 1, IsDomainChar)
            /\ AllIn(s, j + 1, end, IsAsciiLetter)

email_errors(e) ==
    IF e.none \/ e.str = <<>> THEN <<"Email is required">>
    ELSE (IF Len(e.str) < 5 THEN <<"Email too short">> ELSE <<>>)
         \o (IF Len(e.str) > 254 THEN <<"Email too long">> ELSE <<>>)
         \o (IF ~Contains(e.str, <<"@">>) THEN <<"Email must contain @">>
             ELSE <<>>)
         \o (IF ~email_matches(e.str) THEN <<"Email format invalid">>
             ELSE <<>>)

registration_special_chars == {"!", "@", "#", "$", "%", "^", "&", "*"}

registration_password_errors(pw) ==
    IF pw.none \/ pw.str = <<>> THEN <<"Password is required">>
    ELSE LET p == pw.str
         IN  (IF Len(p) < 8 THEN <<"Password too short">> ELSE <<>>)
             \o (IF Len(p) > 128 THEN <<"Password too long">> ELSE <<>>)
             \o (IF ~has_upper(p) THEN <<"Password needs uppercase">>
                 ELSE <<>>)
             \o (IF ~has_lower(p) THEN <<"Password needs lowercase">>
                 ELSE <<>>)
             \o (IF ~has_digit(p) THEN <<"Password needs digit">> ELSE <<>>)
             \o (IF ~\E i \in 1..Len(p) : p[i] \in registration_special_chars
                 THEN <<"Password needs special character">>
                 ELSE <<>>)

\* name.replace(" ", "").isalpha()
name_is_alpha(n) ==
    LET letters == SelectSeq(n, IsNotSpaceChar)
    IN  letters # <<>> /\ \A i \in 1..Len(letters) : isalpha(letters[i])

name_errors(n) ==
    IF n.none \/ n.str = <<>> THEN <<"Name is required">>
    ELSE (IF Len(n.str) < 2 THEN <<"Name too short">> ELSE <<>>)
         \o (IF Len(n.str) > 50 THEN <<"Name too long">> ELSE <<>>)
         \o (IF ~name_is_alpha(n.str)
             THEN <<"Name contains invalid characters">>
             ELSE <<>>)

\* Variant that checks the name before the e-mail address.
registration_errors_name_first(e, pw, n) ==
    name_errors(n) \o email_errors(e) \o registration_password_errors(pw)

registration_errors(e, pw, n) ==
    email_errors(e) \o registration_password_errors(pw) \o name_errors(n)

validate_user_registration(e, pw, n) ==
    LET errors == registration_errors(e, pw, n)
    IN  IF errors # <<>>
        THEN [success |-> FALSE, errors |-> errors, valid |-> FALSE]
        ELSE [success |-> TRUE, message |-> "Registration valid!",
              valid |-> TRUE]

(***************************************************************************)
(* Inputs.                                                                 *)
(***************************************************************************)
Seqs(A, n) == UNION {[1..k -> A] : k \in 0..n}

CharAlphabet == {"a", "A", "1", "_", "e'", " ", "\n", ".", "!"}
PhraseAlphabet == {"a", "b", " "}

RECURSIVE Render(_, _, _)
Render(lens, stops, i) ==
    IF i > Len(lens) THEN <<>>
    ELSE [k \in 1..lens[i] |-> "a"]
         \o <<IF i <= stops THEN "." ELSE " ">>
         \o Render(lens, stops, i + 1)

\* Texts of 1..MaxShapeWords words "a", "aa", ... of non-decreasing length
\* at most MaxShapeWordLen; the first `stops' words are followed by a full
\* stop and the others by a space.
ShapeTexts ==
    UNION {{Render(lens, stops, 1) :
               lens \in {l \in [1..k -> 1..MaxShapeWordLen] :
                            \A i \in 1..(k - 1) : l[i] <= l[i + 1]},
               stops \in 0..k} : k \in 1..MaxShapeWords}

\* Texts of 1..MaxSentimentWords words separated by one space, drawn from
\* two positive words, two negative words and two words of neither list.
SentimentVocabulary ==
    {<<"g", "o", "o", "d">>, <<"l", "o", "v", "e">>,
     <<"b", "a", "d">>, <<"s", "a", "d">>,
     <<"a">>, <<"b", "a", "d", "s">>}

RECURSIVE JoinWords(_, _)
JoinWords(ws, i) ==
    IF i > Len(ws) THEN <<>>
    ELSE ws[i] \o (IF i < Len(ws) THEN <<" ">> ELSE <<>>) \o JoinWords(ws, i + 1)

SentimentTexts ==
    UNION {{JoinWords(ws, 1) : ws \in [1..k -> SentimentVocabulary]} :
              k \in 1..MaxSentimentWords}

Str(s) == [none |-> FALSE, str |-> s]
NoneText == [none |-> TRUE, str |-> <<>>]

TopValues ==
    {IntVal(n) : n \in {-1, 0, 1, 2, 3, 7}}
    \cup {BoolVal(TRUE), BoolVal(FALSE), StrVal(7), FloatVal(2)}
FlagValues == {BoolVal(TRUE), BoolVal(FALSE)}

Entries(key, values) == {EmptyDict} \cup {key :> v : v \in values}

FlagDicts ==
    {l @@ s : l \in Entries("include_language_detection", FlagValues),
              s \in Entries("include_sentiment", FlagValues)}
TopDicts == Entries("top_words_count", TopValues)

NoneOptions == [none |-> TRUE, dict |-> EmptyDict]
Dict(d) == [none |-> FALSE, dict |-> d]

TopOptions == {NoneOptions} \cup {Dict(d) : d \in TopDicts}
AllOptions == {NoneOptions} \cup {Dict(t @@ f) : t \in TopDicts, f \in FlagDicts}

SentimentOptions ==
    {Dict("include_sentiment" :> BoolVal(TRUE)),
     Dict(("include_sentiment" :> BoolVal(TRUE))
          @@ ("include_language_detection" :> BoolVal(TRUE)))}

NoResult == Return(EmptyDict)

\* The functions that a specification does not call.
AnalyzerIdle == text = NoneText /\ options = NoneOptions /\ result = NoResult
FormatIdle == analysis_result = EmptyDict /\ report = <<>>
ValidatorIdle == pw_options = NoneOptions /\ validation = EmptyDict
RegistrationIdle ==
    email = NoneText /\ name = NoneText /\ registration = EmptyDict

Init ==
    /\ \/ /\ text \in {Str(s) : s \in Seqs(CharAlphabet, MaxTextLen)}
          /\ options \in {NoneOptions, Dict(EmptyDict)}
       \/ /\ text \in {Str(s) : s \in Seqs(CharAlphabet, MaxTextLen - 2)}
                       \cup {NoneText}
          /\ options \in AllOptions
       \/ /\ text \in {Str(s) : s \in Seqs(PhraseAlphabet, MaxPhraseLen)}
          /\ options \in TopOptions
       \/ /\ text \in {Str(s) : s \in ShapeTexts}
          /\ options \in {NoneOptions, Dict(EmptyDict)}
       \/ /\ text \in {Str(s) : s \in SentimentTexts}
          /\ options \in SentimentOptions
    /\ pc = "call"
    /\ result = NoResult
    /\ FormatIdle
    /\ password = NoneText /\ ValidatorIdle /\ RegistrationIdle

AnalyzeText ==
    /\ pc = "call"
    /\ \E fp_tie \in {0, 1} : result' = analyze_text(text, options, fp_tie)
    /\ pc' = IF result'.exc = "none" THEN "returned" ELSE "raised"
    /\ UNCHANGED <<text, options, formatVars, password, validatorVars,
                   registrationVars>>

Next == AnalyzeText

Spec == Init /\ [][Next]_vars

(***************************************************************************)
(* format_analysis_report applied to a result dict.  The dict is what      *)
(* analyze_text returned, cut down to any subset of its keys, with or      *)
(* without an error field put in by the caller.                            *)
(***************************************************************************)
FormatAlphabet == {"a", "A", "1", " ", "."}

FormatOptions ==
    {NoneOptions,
     Dict(("include_sentiment" :> BoolVal(TRUE))
          @@ ("include_language_detection" :> BoolVal(TRUE)))}

ErrorFields == {EmptyDict, [error |-> "Test error"], [error |-> ""]}

Restrict(d, keys) == [k \in keys |-> d[k]]

InitFormat ==
    /\ text \in {Str(s) : s \in Seqs(FormatAlphabet, MaxFormatTextLen)}
                 \cup {NoneText}
    /\ options \in FormatOptions
    /\ pc = "call"
    /\ result = NoResult
    /\ FormatIdle
    /\ password = NoneText /\ ValidatorIdle /\ RegistrationIdle

FormatReport ==
    /\ pc = "returned"
    /\ \E keep \in SUBSET DOMAIN result.value, err \in ErrorFields :
           analysis_result' = err @@ Restrict(result.value, keep)
    /\ report' = format_analysis_report(analysis_result')
    /\ pc' = "formatted"
    /\ UNCHANGED <<analyzerVars, password, validatorVars, registrationVars>>

NextFormat == AnalyzeText \/ FormatReport

SpecFormat == InitFormat /\ [][NextFormat]_vars

(***************************************************************************)
(* validate_password applied to a password and an options dict.  A         *)
(* password is a short sequence over PasswordAlphabet followed by a        *)
(* padding that repeats a unit, which gives the lengths around every       *)
(* threshold of the function.  Option values have the types the function   *)
(* computes with: integers, booleans and a list of words.                  *)
(***************************************************************************)
PasswordAlphabet == {"A", "a", "1", "!", " "}

PlainUnit == <<"x", "z">>
PadUnits ==
    {PlainUnit, <<"A", "x", "1", "!">>, <<"a", "b", "c">>, <<"1", "2", "3">>,
     <<"q", "w", "e", "r", "t", "y">>, <<"z", "z", "z">>}

PadLengths == {0, 7, 11, 15, 19, 127}

Cycle(unit, n) == [i \in 1..n |-> unit[((i - 1) % Len(unit)) + 1]]

Passwords(coreLen, units, pads) ==
    {Str(core \o Cycle(unit, n)) :
        core \in Seqs(PasswordAlphabet, coreLen), unit \in units, n \in pads}

LengthOptions ==
    {Dict(a @@ b) :
        a \in Entries("min_length", {IntVal(n) : n \in {0, 4, 9, 200}}),
        b \in Entries("max_length", {IntVal(n) : n \in {-1, 3, 10, 20}})}

RequirementOptions ==
    {Dict(u @@ l @@ d @@ sp @@ f) :
        u \in Entries("require_uppercase", {BoolVal(FALSE)}),
        l \in Entries("require_lowercase", {BoolVal(FALSE)}),
        d \in Entries("require_digits", {BoolVal(FALSE)}),
        sp \in Entries("require_special", {BoolVal(FALSE)}),
        f \in Entries("forbidden_words",
                     {ListVal(<<>>), ListVal(<<PlainUnit, <<"A">>>>)})}

InitPassword ==
    /\ \/ /\ password \in Passwords(MaxCoreLen, PadUnits, PadLengths)
                           \cup {NoneText}
          /\ pw_options \in {NoneOptions, Dict(EmptyDict)}
       \/ /\ password \in Passwords(MaxCoreLen - 1, {PlainUnit}, PadLengths)
          /\ pw_options \in LengthOptions
       \/ /\ password \in Passwords(MaxCoreLen - 1, PadUnits, {0, 7, 19})
          /\ pw_options \in RequirementOptions
    /\ pc = "call"
    /\ validation = EmptyDict
    /\ AnalyzerIdle /\ FormatIdle /\ RegistrationIdle

ValidatePassword ==
    /\ pc = "call"
    /\ validation' = validate_password(password, pw_options)
    /\ pc' = "returned"
    /\ UNCHANGED <<analyzerVars, formatVars, password, pw_options,
                   registrationVars>>

NextPassword == ValidatePassword

SpecPassword == InitPassword /\ [][NextPassword]_vars

(***************************************************************************)
(* validate_user_registration applied to an e-mail address, a password and *)
(* a name.  An e-mail address is a run of "a", a short middle part and an  *)
(* ending; a name is a run of "a" and a short tail.  One argument ranges   *)
(* over all of its values while the two others range over an empty, a      *)
(* valid and an invalid value.                                             *)
(***************************************************************************)
EmailAlphabet == {"a", "@", ".", "1"}
EmailEndings ==
    {<<>>, <<".", "a", "a">>, <<".", "a", "a", "\n">>, <<".", "a">>,
     <<".", "a", "1">>, <<" ">>}

Emails ==
    {Str(Cycle(<<"a">>, n) \o mid \o ending) :
        n \in {0, 1, 249}, mid \in Seqs(EmailAlphabet, MaxEmailMidLen),
        ending \in EmailEndings}

RegistrationPasswords ==
    Passwords(MaxCoreLen, {PlainUnit, <<"A", "x", "1", "!">>}, {0, 7, 127})

NameAlphabet == {"a", " ", "1", "e'"}

Names ==
    {Str(Cycle(<<"a">>, n) \o tail) :
        n \in {0, 49}, tail \in Seqs(NameAlphabet, MaxNameTailLen)}

SomeEmails == {Str(<<>>), Str(<<"a", "@", "a", ".", "a", "a">>), Str(<<"a">>)}
SomePasswords ==
    {Str(<<>>), Str(<<"A", "x", "1", "!", "A", "x", "1", "!">>), Str(<<"a">>)}
SomeNames == {Str(<<>>), Str(<<"a", "a">>), Str(<<"1">>)}

InitRegistration ==
    /\ \/ /\ email \in Emails \cup {NoneText}
          /\ password \in SomePasswords
          /\ name \in SomeNames
       \/ /\ email \in SomeEmails
          /\ password \in RegistrationPasswords \cup {NoneText}
          /\ name \in SomeNames
       \/ /\ email \in SomeEmails
          /\ password \in SomePasswords
          /\ name \in Names \cup {NoneText}
    /\ pc = "call"
    /\ registration = EmptyDict
    /\ AnalyzerIdle /\ FormatIdle /\ ValidatorIdle

ValidateUserRegistration ==
    /\ pc = "call"
    /\ registration' = validate_user_registration(email, password, name)
    /\ pc' = "returned"
    /\ UNCHANGED <<analyzerVars, formatVars, password, validatorVars, email,
                   name>>

NextRegistration == ValidateUserRegistration

SpecRegistration == InitRegistration /\ [][NextRegistration]_vars

(***************************************************************************)
(* Properties of analyze_text.                                             *)
(***************************************************************************)
Called == pc # "call"
Returned == pc = "returned"
NonEmptyText == ~text.none /\ Len(text.str) > 0
R == result.value
MandatorySections ==
    {"basic_stats", "word_analysis", "character_analysis", "readability"}
OptionPresent(key) == ~options.none /\ key \in DOMAIN options.dict

\* C1: for every non-empty text and every options value the call returns
\* (it does not raise), the result holds the four sections basic_stats,
\* word_analysis, character_analysis and readability, and no error field.
C1_FourSectionsNoRaise ==
    (Called /\ NonEmptyText) =>
        /\ pc = "returned"
        /\ result.exc = "none"
        /\ MandatorySections \subseteq DOMAIN R
        /\ "error" \notin DOMAIN R

\* A text with a sentence but no word ("1") has been analysed.
C1_Witness ==
    /\ Returned /\ NonEmptyText
    /\ MandatorySections \subseteq DOMAIN R
    /\ R.basic_stats.total_sentences > 0
    /\ R.word_analysis.total_words = 0

\* C2: for the empty string and for None the result has the single field
\* error, with the value "Text cannot be empty", whatever the options.
C2_EmptyTextError ==
    (Called /\ (text.none \/ Len(text.str) = 0)) =>
        /\ result.exc = "none"
        /\ DOMAIN R = {"error"}
        /\ R.error = "Text cannot be empty"

\* The empty string has been analysed with both optional sections enabled.
C2_Witness ==
    /\ Returned /\ ~text.none /\ Len(text.str) = 0
    /\ OptionPresent("include_sentiment")
    /\ OptionPresent("include_language_detection")
    /\ options.dict["include_sentiment"] = BoolVal(TRUE)
    /\ options.dict["include_language_detection"] = BoolVal(TRUE)
    /\ DOMAIN R = {"error"}

\* Start positions of the maximal runs of ASCII letters of s.
LetterRunStarts(s) ==
    {i \in 1..Len(s) :
        IsAsciiLetter(s[i]) /\ (i = 1 \/ ~IsAsciiLetter(s[i - 1]))}

\* The maximal run of ASCII letters starting at i touches a \w character.
RunTouchesWordChar(s, i) ==
    \/ i > 1 /\ IsWordChar(s[i - 1])
    \/ \E j \in i..(Len(s) - 1) :
          /\ \A k \in i..j : IsAsciiLetter(s[k])
          /\ ~IsAsciiLetter(s[j + 1])
          /\ IsWordChar(s[j + 1])

\* C3 as stated: total_words is the number of maximal runs of ASCII
\* letters of the text, runs next to digits, underscores or non-ASCII
\* letters included.
C3_Original ==
    (Returned /\ NonEmptyText) =>
        R.word_analysis.total_words = Cardinality(LetterRunStarts(text.str))

\* C3 (amended): total_words is the number of maximal runs of ASCII letters
\* of the lower-cased text that are neither preceded nor followed by a word
\* character (a letter of any script, a digit or an underscore).
C3_WordsAreDelimitedRuns ==
    (Returned /\ NonEmptyText) =>
        R.word_analysis.total_words =
            Cardinality({i \in LetterRunStarts(lower(text.str)) :
                            ~RunTouchesWordChar(lower(text.str), i)})

\* A text whose only run of letters touches a digit, an underscore or a
\* non-ASCII letter has been analysed, and no word was counted.
C3_Witness ==
    /\ Returned /\ NonEmptyText
    /\ Cardinality(LetterRunStarts(text.str)) = 1
    /\ \E i \in LetterRunStarts(text.str) : RunTouchesWordChar(text.str, i)
    /\ R.word_analysis.total_words = 0

\* C4: with at least one word and one sentence, lexical_diversity is
\* unique_words / total_words with 1 <= unique_words <= total_words, so it
\* lies in [0, 1]; flesch_score lies in [0, 100], being 100 when the raw
\* score exceeds 100, 0 when the raw score is negative, and otherwise the
\* raw score rounded to the nearest hundredth.
C4_RangesOfDiversityAndFlesch ==
    (Returned /\ NonEmptyText
       /\ R.word_analysis.total_words >= 1
       /\ R.basic_stats.total_sentences >= 1) =>
        LET wa == R.word_analysis
            ld == wa.lexical_diversity
            raw == raw_score([num |-> wa.total_words,
                              den |-> R.basic_stats.total_sentences],
                             wa.average_word_length)
            fs == R.readability.flesch_score
        IN  /\ ld.num = wa.unique_words /\ ld.den = wa.total_words
            /\ 1 <= wa.unique_words /\ wa.unique_words <= wa.total_words
            /\ 0 <= ld.num /\ ld.num <= ld.den
            /\ 0 <= fs /\ fs <= 10000
            /\ raw.num > 100 * raw.den => fs = 10000
            /\ raw.num < 0 => fs = 0
            /\ (0 <= raw.num /\ raw.num <= 100 * raw.den) =>
                   /\ 2 * (fs * raw.den - 100 * raw.num) <= raw.den
                   /\ 2 * (100 * raw.num - fs * raw.den) <= raw.den

\* A text with a repeated word and a negative raw score has been analysed.
C4_Witness ==
    /\ Returned /\ NonEmptyText
    /\ R.word_analysis.total_words >= 2
    /\ R.word_analysis.lexical_diversity.num
           < R.word_analysis.lexical_diversity.den
    /\ raw_score([num |-> R.word_analysis.total_words,
                  den |-> R.basic_stats.total_sentences],
                 R.word_analysis.average_word_length).num < 0
    /\ R.readability.flesch_score = 0

\* Start positions of the maximal runs of non-terminator characters of s
\* that hold at least one non-whitespace character.
SentenceStarts(s) ==
    {i \in 1..Len(s) :
        /\ ~IsTerminator(s[i])
        /\ i = 1 \/ IsTerminator(s[i - 1])
        /\ \E j \in i..Len(s) :
              /\ ~isspace(s[j])
              /\ \A k \in i..j : ~IsTerminator(s[k])}

\* C5: total_sentences is the number of fragments between maximal runs of
\* '.', '!' and '?' that are non-empty after trimming; a text without
\* terminator and with non-whitespace content has 1 sentence, a text of
\* terminators and whitespace only has 0.
C5_SentenceCount ==
    (Returned /\ NonEmptyText) =>
        LET s == text.str
            n == R.basic_stats.total_sentences
        IN  /\ n = Cardinality(SentenceStarts(s))
            /\ ((\A i \in 1..Len(s) : ~IsTerminator(s[i]))
                  /\ (\E i \in 1..Len(s) : ~isspace(s[i]))) => n = 1
            /\ (\A i \in 1..Len(s) : IsTerminator(s[i]) \/ isspace(s[i]))
                  => n = 0

\* A text with a terminator between two sentences has been analysed.
C5_Witness ==
    /\ Returned /\ NonEmptyText
    /\ \E i \in 1..Len(text.str) : IsTerminator(text.str[i])
    /\ R.basic_stats.total_sentences = 2

TextWords == find_words(text.str)
DistinctWords == Cardinality(Range(TextWords))
FirstIndex(s, x) == CHOOSE i \in 1..Len(s) : s[i] = x /\ \A j \in 1..(i - 1) : s[j] # x
Listed(mcw) == {mcw[i][1] : i \in 1..Len(mcw)}

\* C6: when top_words_count is a positive integer N and the text has a
\* word, most_common_words has exactly min(N, distinct words) entries.
C6_TopWordsLength ==
    (Returned /\ NonEmptyText /\ Len(TextWords) >= 1
       /\ OptionPresent("top_words_count")
       /\ options.dict["top_words_count"].kind = "int"
       /\ options.dict["top_words_count"].v > 0) =>
        Len(R.word_analysis.most_common_words) =
            Min(options.dict["top_words_count"].v, DistinctWords)

\* A text of three distinct words has been analysed with top_words_count 2.
C6_Witness ==
    /\ Returned /\ NonEmptyText
    /\ OptionPresent("top_words_count")
    /\ options.dict["top_words_count"] = IntVal(2)
    /\ DistinctWords = 3
    /\ Len(R.word_analysis.most_common_words) = 2

\* C7 as stated: when top_words_count is present and is not a positive
\* integer (zero, negative, a string, a boolean, a float), the call returns
\* and most_common_words is the default list of min(5, distinct words)
\* entries.
C7_InvalidTopCountFallsBack ==
    (Called /\ NonEmptyText /\ Len(TextWords) >= 1
       /\ OptionPresent("top_words_count")
       /\ ~(options.dict["top_words_count"].kind = "int"
              /\ options.dict["top_words_count"].v > 0)) =>
        /\ Returned
        /\ Len(R.word_analysis.most_common_words) =
               Min(5, DistinctWords)

\* C8: most_common_words lists pairs (word, count) where count is the
\* number of occurrences of the word, in non-increasing order of count,
\* equal counts in order of first occurrence, and no unlisted word has a
\* strictly higher count than a listed one.
C8_MostCommonOrder ==
    (Returned /\ NonEmptyText /\ Len(TextWords) >= 1) =>
        LET mcw == R.word_analysis.most_common_words
            ws == TextWords
        IN  /\ \A i \in 1..Len(mcw) :
                  /\ mcw[i][1] \in Range(ws)
                  /\ mcw[i][2] = Occurrences(ws, mcw[i][1])
            /\ \A i, j \in 1..Len(mcw) :
                  i < j =>
                      /\ mcw[i][2] >= mcw[j][2]
                      /\ mcw[i][2] = mcw[j][2] =>
                             FirstIndex(ws, mcw[i][1])
                                 < FirstIndex(ws, mcw[j][1])
            /\ \A w \in Range(ws) \ Listed(mcw) :
                  \A i \in 1..Len(mcw) : Occurrences(ws, w) <= mcw[i][2]

\* A text has been analysed in which a later word is more frequent than an
\* earlier one, and two listed words have the same count.
C8_Witness ==
    /\ Returned /\ NonEmptyText /\ Len(TextWords) >= 1
    /\ LET mcw == R.word_analysis.most_common_words
       IN  /\ Len(mcw) = 3
           /\ mcw[1][2] > mcw[2][2]
           /\ mcw[2][2] = mcw[3][2]
           /\ FirstIndex(TextWords, mcw[1][1]) > FirstIndex(TextWords, mcw[2][1])

LabelRank(label) ==
    CASE label = "Very Difficult" -> 0
      [] label = "Difficult" -> 1
      [] label = "Fairly Difficult" -> 2
      [] label = "Standard" -> 3
      [] label = "Fairly Easy" -> 4
      [] label = "Easy" -> 5
      [] label = "Very Easy" -> 6
      [] OTHER -> -1

\* The clamped score of the analysed text, from the counts of the result.
ClampedScore ==
    clamp_score(raw_score([num |-> R.word_analysis.total_words,
                           den |-> R.basic_stats.total_sentences],
                          R.word_analysis.average_word_length))

\* C9: whenever readability is computed, difficulty_level is one of the
\* seven labels, ordered from "Very Difficult" to "Very Easy", and its
\* position in that order is the number of thresholds 30, 50, 60, 70, 80,
\* 90 that the clamped score reaches.
C9_DifficultyThresholds ==
    (Returned /\ NonEmptyText) =>
        /\ "difficulty_level" \in DOMAIN R.readability
               <=> "flesch_score" \in DOMAIN R.readability
        /\ "difficulty_level" \in DOMAIN R.readability =>
               LabelRank(R.readability.difficulty_level) =
                   Cardinality({t \in {30, 50, 60, 70, 80, 90} :
                                   FracGE(ClampedScore, t)})

\* A text whose clamped score lies in [60, 70) has been analysed.
C9_Witness ==
    /\ Returned /\ NonEmptyText
    /\ "difficulty_level" \in DOMAIN R.readability
    /\ FracGE(ClampedScore, 60) /\ ~FracGE(ClampedScore, 70)
    /\ R.readability.difficulty_level = "Standard"

Enabled(key) == OptionPresent(key) /\ options.dict[key] = BoolVal(TRUE)

\* C10: for a non-empty text, language_detection is in the result exactly
\* when include_language_detection is enabled, sentiment_analysis exactly
\* when include_sentiment is enabled; with neither enabled the result has
\* exactly the four mandatory sections.
C10_OptionalSections ==
    (Returned /\ NonEmptyText) =>
        /\ "language_detection" \in DOMAIN R
               <=> Enabled("include_language_detection")
        /\ "sentiment_analysis" \in DOMAIN R <=> Enabled("include_sentiment")
        /\ (~Enabled("include_language_detection")
              /\ ~Enabled("include_sentiment")) =>
               DOMAIN R = MandatorySections

\* A text has been analysed with language detection enabled and sentiment
\* explicitly disabled.
C10_Witness ==
    /\ Returned /\ NonEmptyText
    /\ Enabled("include_language_detection")
    /\ OptionPresent("include_sentiment")
    /\ options.dict["include_sentiment"] = BoolVal(FALSE)
    /\ DOMAIN R = MandatorySections \cup {"language_detection"}

\* C11: with include_sentiment enabled, positive_words_count and
\* negative_words_count are the numbers of word occurrences of the text that
\* belong to the positive and to the negative list; sentiment is "Positive"
\* exactly when the positive count is strictly greater, "Negative" exactly
\* when the negative count is strictly greater, "Neutral" when they are
\* equal.
C11_SentimentCounts ==
    (Returned /\ NonEmptyText /\ Enabled("include_sentiment")) =>
        LET sa == R.sentiment_analysis
            pos == Cardinality({i \in 1..Len(TextWords) :
                                   \E w \in positive_words : TextWords[i] = w})
            neg == Cardinality({i \in 1..Len(TextWords) :
                                   \E w \in negative_words : TextWords[i] = w})
        IN  /\ sa.positive_words_count = pos
            /\ sa.negative_words_count = neg
            /\ sa.sentiment \in {"Positive", "Negative", "Neutral"}
            /\ sa.sentiment = "Positive" <=> pos > neg
            /\ sa.sentiment = "Negative" <=> neg > pos
            /\ sa.sentiment = "Neutral" <=> pos = neg

\* A text with one positive and one negative word has been analysed and is
\* reported neutral.
C11_Witness ==
    /\ Returned /\ NonEmptyText /\ Enabled("include_sentiment")
    /\ R.sentiment_analysis.positive_words_count = 1
    /\ R.sentiment_analysis.negative_words_count = 1
    /\ R.sentiment_analysis.sentiment = "Neutral"

WordStatKeys ==
    {"total_words", "most_common_words", "average_word_length",
     "longest_word", "shortest_word", "unique_words", "lexical_diversity"}
ReadabilityKeys ==
    {"average_words_per_sentence", "flesch_score", "difficulty_level"}

\* C18: every division has a positive divisor: the word statistics are
\* computed exactly when total_words > 0, the readability fields exactly
\* when total_sentences > 0 and total_words > 0; otherwise readability is
\* present and empty, and with no word only total_words is present.  No
\* call raises.
C18_DivisorsPositive ==
    (Called /\ NonEmptyText) =>
        /\ pc = "returned"
        /\ LET wa == R.word_analysis
               rd == R.readability
               W == wa.total_words
               S == R.basic_stats.total_sentences
           IN  /\ W > 0 =>
                      /\ DOMAIN wa = WordStatKeys
                      /\ wa.average_word_length.den = W
                      /\ wa.lexical_diversity.den = W
               /\ W = 0 => DOMAIN wa = {"total_words"}
               /\ (S > 0 /\ W > 0) =>
                      /\ DOMAIN rd = ReadabilityKeys
                      /\ rd.average_words_per_sentence.den = S
               /\ (S = 0 \/ W = 0) =>
                      /\ DOMAIN rd = {}
                      /\ DOMAIN wa = {"total_words"}

\* A text with a sentence and no word has been analysed: readability is
\* empty and total_words is the only word statistic.
C18_Witness ==
    /\ Returned /\ NonEmptyText
    /\ R.basic_stats.total_sentences > 0
    /\ DOMAIN R.word_analysis = {"total_words"}
    /\ "readability" \in DOMAIN R
    /\ DOMAIN R.readability = {}

(***************************************************************************)
(* Properties of format_analysis_report.                                   *)
(***************************************************************************)
Formatted == pc = "formatted"
HeaderLines == {Header(SectionOrder[i]).fmt : i \in 1..Len(SectionOrder)}
IsHeader(line) == line.fmt \in HeaderLines
IsSectionPresent(section) == section \in DOMAIN analysis_result
ErrorLine(message) == Line("Error: {}", <<message>>)

\* C12: format_analysis_report applied to a dict that holds the error field
\* X returns exactly the one line "Error: X", with no title line and no
\* section block, whatever else the dict holds; applied to what
\* analyze_text returns for the empty text it returns exactly
\* "Error: Text cannot be empty".
C12_ErrorReport ==
    /\ (Formatted /\ "error" \in DOMAIN analysis_result)
           => /\ Len(report) = 1
              /\ report[1].fmt = "Error: {}"
              /\ report[1].args = <<analysis_result["error"]>>
    /\ (Formatted /\ text = Str(<<>>) /\ DOMAIN analysis_result = {"error"}
           /\ analysis_result["error"] = result.value["error"])
           => report = <<ErrorLine("Text cannot be empty")>>

\* An error field next to section keys still gives the one error line.
C12_Witness ==
    /\ Formatted
    /\ DOMAIN analysis_result = {"error", "basic_stats", "word_analysis"}
    /\ analysis_result["error"] = "Test error"
    /\ report = <<ErrorLine("Test error")>>

\* C13: for a dict without an error field the report starts with the title
\* line, and the section headers it contains are, in this order, those of
\* Basic Statistics, Word Analysis, Character Analysis, Readability,
\* Language Detection and Sentiment Analysis whose key is in the dict: a
\* header is in the report exactly when its key is in the dict, and each
\* block is closed by an empty line before the next header.
C13_TitleThenBlocksInOrder ==
    (Formatted /\ "error" \notin DOMAIN analysis_result) =>
        LET present == SelectSeq(SectionOrder, IsSectionPresent)
            headers == SelectSeq(report, IsHeader)
            at == {i \in 1..Len(report) : IsHeader(report[i])}
        IN  /\ Len(report) >= 2
            /\ report[1].fmt = "=== TEXT ANALYSIS REPORT ==="
            /\ report[2] = BlankLine
            /\ headers = [i \in 1..Len(present) |-> Header(present[i])]
            /\ \A i \in at : i >= 3 /\ report[i - 1] = BlankLine
            /\ present # <<>> => report[Len(report)] = BlankLine

\* A report with the first, fourth and sixth block only, the readability
\* section being present and empty.
C13_Witness ==
    /\ Formatted
    /\ DOMAIN analysis_result =
           {"basic_stats", "readability", "sentiment_analysis"}
    /\ DOMAIN analysis_result["readability"] = {}
    /\ SelectSeq(report, IsHeader) =
           <<Header("basic_stats"), Header("readability"),
             Header("sentiment_analysis")>>

(***************************************************************************)
(* Properties of validate_password.                                        *)
(***************************************************************************)
Validated == pc = "returned" /\ ~password.none /\ password.str # <<>>
V == validation
EffectiveMaxLength ==
    IF ~pw_options.none /\ "max_length" \in DOMAIN pw_options.dict
    THEN pw_options.dict["max_length"].v
    ELSE DefaultMaxLength
VeryLongWarning == "Very long password - consider using a password manager"

\* C14: for a non-empty password, valid is true exactly when the errors
\* list is empty, whatever the warnings list holds; an invalid result's
\* message gives the number of errors, and a valid result with warnings
\* has a message that gives the number of warnings.
C14_ValidIffNoErrors ==
    Validated =>
        /\ V.valid \in BOOLEAN
        /\ V.valid <=> Len(V.errors) = 0
        /\ ~V.valid =>
               V.message = "Password is invalid with "
                           \o ToString(Len(V.errors)) \o " error(s)"
        /\ (V.valid /\ Len(V.warnings) > 0) =>
               V.message = "Password is valid but "
                           \o strength_lower(V.strength) \o " with "
                           \o ToString(Len(V.warnings)) \o " warning(s)"

\* A valid password with two warnings.
C14_Witness ==
    /\ Validated
    /\ V.valid
    /\ Len(V.warnings) = 2
    /\ V.message = "Password is valid but strong with 2 warning(s)"

\* C15: for a non-empty password the score depends on the password only:
\* two points for length >= 8, one point for each of the lengths 12, 16
\* and 20 reached, one point for each character class present among
\* uppercase, lowercase, digit and special; it lies in 0..9, and the label
\* is Weak up to 4, Medium for 5 and 6, Strong for 7 and 8, Very Strong
\* for 9.
C15_StrengthScore ==
    Validated =>
        LET p == password.str
            reached == {n \in {12, 16, 20} : Len(p) >= n}
            classes ==
                {c \in {"upper", "lower", "digit", "special"} :
                    \E i \in 1..Len(p) :
                        CASE c = "upper" -> isupper(p[i])
                          [] c = "lower" -> islower(p[i])
                          [] c = "digit" -> isdigit(p[i])
                          [] c = "special" -> p[i] \in special_chars}
            base == IF Len(p) >= 8 THEN 2 ELSE 0
        IN  /\ V.strength_score = base + Cardinality(reached)
                                  + Cardinality(classes)
            /\ V.strength_score \in 0..9
            /\ V.strength_score <= 4 <=> V.strength = "Weak"
            /\ V.strength_score \in 5..6 <=> V.strength = "Medium"
            /\ V.strength_score \in 7..8 <=> V.strength = "Strong"
            /\ V.strength_score = 9 <=> V.strength = "Very Strong"

\* A password of exactly 8 characters scores the two base points under
\* options that lower every requirement.
C15_Witness ==
    /\ Validated
    /\ Len(password.str) = 8
    /\ ~pw_options.none /\ "require_digits" \in DOMAIN pw_options.dict
    /\ V.strength_score = 3
    /\ V.strength = "Weak"

\* C16: a password longer than the effective max_length is rejected, and
\* its errors hold "Password must be no more than <max_length> characters
\* long", whatever min_length and the other options are.
C16_TooLongRejected ==
    (Validated /\ Len(password.str) > EffectiveMaxLength) =>
        /\ ~V.valid
        /\ \E i \in 1..Len(V.errors) :
               V.errors[i] = "Password must be no more than "
                             \o ToString(EffectiveMaxLength)
                             \o " characters long"

\* C19: the label Very Strong is given to passwords of 20 characters or
\* more only, and every such result holds the very-long warning, so it has
\* at least one warning; no result has the message "Password is valid and
\* very strong".
C19_VeryStrongHasWarning ==
    /\ (Validated /\ V.strength = "Very Strong") =>
           /\ Len(password.str) >= 20
           /\ \E i \in 1..Len(V.warnings) : V.warnings[i] = VeryLongWarning
           /\ Len(V.warnings) >= 1
    /\ pc = "returned" => V.message # "Password is valid and very strong"

\* A valid password of exactly 20 characters with the label Very Strong
\* whose only warning is the very-long one.
C19_Witness ==
    /\ Validated
    /\ Len(password.str) = 20
    /\ V.strength = "Very Strong"
    /\ V.valid
    /\ V.warnings = <<VeryLongWarning>>

(***************************************************************************)
(* Properties of validate_user_registration.                               *)
(***************************************************************************)
Registered == pc = "returned"
G == registration
IsEmptyField(f) == f.none \/ f.str = <<>>

EmailMessages ==
    {"Email is required", "Email too short", "Email too long",
     "Email must contain @", "Email format invalid"}
PasswordMessages ==
    {"Password is required", "Password too short", "Password too long",
     "Password needs uppercase", "Password needs lowercase",
     "Password needs digit", "Password needs special character"}
NameMessages ==
    {"Name is required", "Name too short", "Name too long",
     "Name contains invalid characters"}

FieldRank(message) ==
    IF message \in EmailMessages THEN 1
    ELSE IF message \in PasswordMessages THEN 2
    ELSE IF message \in NameMessages THEN 3
    ELSE 0

IsEmailMessage(message) == message \in EmailMessages
IsPasswordMessage(message) == message \in PasswordMessages
IsNameMessage(message) == message \in NameMessages

\* C17: success and valid are equal; they are true exactly when none of the
\* three fields has a validation error, and the result is then success,
\* valid and the message "Registration valid!" with no errors list;
\* otherwise both are false and errors is a non-empty list with the e-mail
\* errors first, the password errors next and the name errors last; an
\* empty field has exactly one error, "<Field> is required".
C17_RegistrationResult ==
    Registered =>
        /\ G.success \in BOOLEAN
        /\ G.success = G.valid
        /\ G.success <=>
               /\ email_errors(email) = <<>>
               /\ registration_password_errors(password) = <<>>
               /\ name_errors(name) = <<>>
        /\ G.success =>
               /\ DOMAIN G = {"success", "message", "valid"}
               /\ G.message = "Registration valid!"
               /\ ~IsEmptyField(email) /\ ~IsEmptyField(password)
               /\ ~IsEmptyField(name)
               /\ Len(email.str) \in 5..254
               /\ Len(password.str) \in 8..128
               /\ Len(name.str) \in 2..50
        /\ ~G.success =>
               /\ DOMAIN G = {"success", "errors", "valid"}
               /\ Len(G.errors) > 0
               /\ \A i \in 1..Len(G.errors) : FieldRank(G.errors[i]) \in 1..3
               /\ \A i, j \in 1..Len(G.errors) :
                      i < j => FieldRank(G.errors[i]) <= FieldRank(G.errors[j])
               /\ IsEmptyField(email) =>
                      SelectSeq(G.errors, IsEmailMessage)
                          = <<"Email is required">>
               /\ IsEmptyField(password) =>
                      SelectSeq(G.errors, IsPasswordMessage)
                          = <<"Password is required">>
               /\ IsEmptyField(name) =>
                      SelectSeq(G.errors, IsNameMessage)
                          = <<"Name is required">>

\* A rejected registration with errors of all three fields, the password
\* being empty.
C17_Witness ==
    /\ Registered
    /\ ~G.success
    /\ IsEmptyField(password) /\ ~IsEmptyField(email) /\ ~IsEmptyField(name)
    /\ Len(SelectSeq(G.errors, IsEmailMessage)) >= 2
    /\ SelectSeq(G.errors, IsPasswordMessage) = <<"Password is required">>
    /\ Len(SelectSeq(G.errors, IsNameMessage)) >= 2

====
